---- MODULE Spec2Model ----
(***************************************************************************)
(* The PD worker of raftstore (src/raftstore/store/worker/pd.rs): the     *)
(* Runner that dispatches the five Task kinds, the futures it spawns on   *)
(* the single-threaded driver, the heartbeat response consumer and the    *)
(* outbound channel on which admin commands and tombstones are sent.      *)
(***************************************************************************)
EXTENDS Integers, Sequences, FiniteSets, TLC

\* ------------------------------------------------------------------ bounds
MaxRuns == 2          \* run(task) calls explored
MaxDirectives == 2    \* directives the Director stream yields
ChCap == 2            \* capacity of the outbound channel
MaxBytes == 2         \* largest byte count of the store heartbeat grid

VARIABLES
    is_hb_receiver_scheduled, \* Runner.is_hb_receiver_scheduled
    hbSpawned,      \* how many times the consumer future was spawned
    hbState,        \* "idle" | "running" | "exited" | "panicked"
    hbDelivered,    \* directives the consumer's callback has handled
    runs,           \* run(task) calls made so far
    futures,        \* task futures spawned on the driver and still pending
    ch,             \* contents of the outbound channel (SendCh<Msg>), FIFO
    chClosed,       \* the receiving end of the channel is gone
    hbInCh,         \* the consumer's accepted commands still in ch, in handling order
    panicked,       \* the worker hit panic!
    streamErr,      \* the directive stream yielded an error
    reqCounter,     \* PD_REQ_COUNTER_VEC
    hbCounter,      \* PD_HEARTBEAT_COUNTER_VEC
    validateCounter,\* PD_VALIDATE_PEER_COUNTER_VEC
    gauge,          \* STORE_SIZE_GAUGE_VEC
    rpcIssued,      \* Director requests issued so far
    storeHb,        \* last store heartbeat: its inputs and the stats sent
    pdLast,         \* history: what the Director client delivered last
    sendErrs,       \* history: try_send calls the channel rejected
    cbInvoked       \* callbacks the worker itself invoked

vars == <<is_hb_receiver_scheduled, hbSpawned, hbState, hbDelivered, runs,
          futures, ch, chClosed, hbInCh, panicked, streamErr, reqCounter,
          hbCounter, validateCounter, gauge, rpcIssued, storeHb, pdLast,
          sendErrs, cbInvoked>>

\* ------------------------------------------------------------ data domains
Peer(i) == [id |-> i, store_id |-> i]

Peers == {Peer(1), Peer(2), Peer(3)}

Epoch(c, v) == [conf_ver |-> c, version |-> v]

Epochs == {Epoch(1, 1), Epoch(1, 2), Epoch(2, 1)}

Region(i, e, ps) == [id |-> i, region_epoch |-> e, peers |-> ps]

\* regions the Raft layer hands to the worker
LocalRegions ==
    {Region(1, Epoch(1, 2), <<Peer(1), Peer(2)>>),
     Region(2, Epoch(2, 1), <<Peer(2), Peer(3)>>)}

SplitKeys == {"k1", "k2"}

Callbacks == {"None", "cb1"}

AskSplitTasks ==
    {[kind |-> "AskSplit", region |-> r, split_key |-> k, peer |-> r.peers[1],
      right_derive |-> rd, callback |-> cb] :
        r \in LocalRegions, k \in SplitKeys, rd \in BOOLEAN, cb \in Callbacks}

HeartbeatTasks ==
    {[kind |-> "Heartbeat", region |-> r, peer |-> r.peers[1]] : r \in LocalRegions}

ReportSplitTasks ==
    {t \in [kind : {"ReportSplit"}, left : LocalRegions, right : LocalRegions] :
        t.left # t.right}

ValidatePeerTasks ==
    {[kind |-> "ValidatePeer", region |-> r, peer |-> p] :
        r \in LocalRegions, p \in {Peer(1), Peer(2)}}

\* fs2::statvfs results and StoreInfo/StoreStats inputs of a store heartbeat
StoreHbInput(cfg, probe_ok, total, free, used, engine) ==
    [kind |-> "StoreHeartbeat", configured |-> cfg, probe_ok |-> probe_ok,
     disk_total |-> total, disk_free |-> free, stats_used |-> used,
     engine_used |-> engine]

StoreHeartbeatTasks ==
    {StoreHbInput(2, FALSE, 0, 0, 0, 0),
     StoreHbInput(1, TRUE, 2, 1, 0, 0)}

StoreHeartbeatGrid ==
    {StoreHbInput(cfg, TRUE, total, free, used, engine) :
        cfg \in 0..MaxBytes, total \in 0..MaxBytes, free \in 0..MaxBytes,
        used \in 0..MaxBytes, engine \in 0..MaxBytes}
    \cup {StoreHbInput(cfg, FALSE, 0, 0, 0, 0) : cfg \in 0..MaxBytes}

\* the few tasks of each kind that the mixed specification dispatches
AskSplitSome ==
    {t \in AskSplitTasks :
        \/ t.region.id = 1 /\ t.split_key = "k1" /\ t.right_derive /\ t.callback = "cb1"
        \/ t.region.id = 2 /\ t.split_key = "k2" /\ ~t.right_derive
              /\ t.callback = "None"}

HeartbeatSome == {t \in HeartbeatTasks : t.region.id = 1}

ValidatePeerSome == {t \in ValidatePeerTasks : t.region.id = 1 /\ t.peer = Peer(2)}

\* pdpb::AskSplitResponse, or the RPC's error
AskSplitResponses ==
    {[ok |-> TRUE, new_region_id |-> 10, new_peer_ids |-> <<11, 12>>],
     [ok |-> TRUE, new_region_id |-> 20, new_peer_ids |-> <<21>>],
     [ok |-> FALSE, new_region_id |-> 0, new_peer_ids |-> <<>>]}

AskSplitResponsesSome == {r \in AskSplitResponses : r.new_region_id # 20}

UnitResponses == {[ok |-> TRUE], [ok |-> FALSE]}

NoRegion == Region(0, Epoch(0, 0), <<>>)

\* Result<Option<metapb::Region>> of get_region_by_id
GetRegionResponses(id) ==
    {[ok |-> TRUE, some |-> TRUE, region |-> Region(id, e, ps)] :
        e \in Epochs, ps \in {<<Peer(1), Peer(3)>>, <<Peer(2)>>}}
    \cup {[ok |-> TRUE, some |-> FALSE, region |-> NoRegion],
          [ok |-> FALSE, some |-> FALSE, region |-> NoRegion]}

GetRegionResponsesSome(id) ==
    {r \in GetRegionResponses(id) :
        r.some => /\ r.region.peers = <<Peer(1), Peer(3)>>
                  /\ r.region.region_epoch \in {Epoch(1, 1), Epoch(1, 2)}}

NoChangePeer == [change_type |-> "AddNode", peer |-> Peer(0)]

NoTransferLeader == [peer |-> Peer(0)]

\* pdpb::RegionHeartbeatResponse; an unset field reads as its default
Directive(id, e, target, has_cp, cp, has_tl, tl) ==
    [region_id |-> id, region_epoch |-> e, target_peer |-> target,
     has_change_peer |-> has_cp, change_peer |-> cp,
     has_transfer_leader |-> has_tl, transfer_leader |-> tl]

Directives ==
    {Directive(1, Epoch(1, 2), Peer(1), TRUE,
               [change_type |-> "AddNode", peer |-> Peer(3)], FALSE, NoTransferLeader),
     Directive(2, Epoch(2, 1), Peer(2), TRUE,
               [change_type |-> "RemoveNode", peer |-> Peer(3)], FALSE, NoTransferLeader),
     Directive(1, Epoch(1, 1), Peer(2), FALSE, NoChangePeer, TRUE, [peer |-> Peer(1)]),
     Directive(2, Epoch(2, 1), Peer(3), TRUE,
               [change_type |-> "AddNode", peer |-> Peer(1)], TRUE, [peer |-> Peer(2)]),
     Directive(2, Epoch(1, 2), Peer(2), FALSE, NoChangePeer, FALSE, NoTransferLeader)}

DirectivesSome ==
    {d \in Directives :
        /\ ~(d.has_change_peer /\ d.has_transfer_leader)
        /\ d.region_id = 1 \/ ~d.has_change_peer}

\* ------------------------------------------------------------ pure helpers
\* raftstore::store::util::is_epoch_stale(epoch, check_epoch)
is_epoch_stale(epoch, check_epoch) ==
    /\ epoch.conf_ver <= check_epoch.conf_ver
    /\ epoch.version <= check_epoch.version
    /\ epoch # check_epoch

new_change_peer_request(change_type, peer) ==
    [cmd_type |-> "ChangePeer",
     change_peer |-> [change_type |-> change_type, peer |-> peer]]

\* mutant: set_right_derive is forgotten, the field keeps its default
new_split_region_request_no_derive(split_key, new_region_id, peer_ids, right_derive) ==
    [cmd_type |-> "Split",
     split |-> [split_key |-> split_key, new_region_id |-> new_region_id,
                new_peer_ids |-> peer_ids, right_derive |-> FALSE]]

new_split_region_request(split_key, new_region_id, peer_ids, right_derive) ==
    [cmd_type |-> "Split",
     split |-> [split_key |-> split_key, new_region_id |-> new_region_id,
                new_peer_ids |-> peer_ids, right_derive |-> right_derive]]

new_transfer_leader_request(peer) ==
    [cmd_type |-> "TransferLeader", transfer_leader |-> [peer |-> peer]]

\* Msg::new_raft_cmd(request, callback)
new_raft_cmd(request, callback) ==
    [type |-> "RaftCmd", request |-> request, callback |-> callback]

\* the outcome of one use of the channel by a closure
NoSend(chan) == [attempted |-> FALSE, ok |-> TRUE, ch |-> chan, invoked |-> {}]

\* SendCh::try_send: non-blocking, fails when the channel is full or closed
try_send(chan, closed, msg) ==
    IF closed \/ Len(chan) >= ChCap
    THEN [attempted |-> TRUE, ok |-> FALSE, ch |-> chan, invoked |-> {}]
    ELSE [attempted |-> TRUE, ok |-> TRUE, ch |-> Append(chan, msg), invoked |-> {}]

\* mutant: the command jumps the queue
send_admin_request_front(chan, closed, region_id, epoch, peer, request, callback) ==
    LET req == [header |-> [region_id |-> region_id, region_epoch |-> epoch,
                            peer |-> peer],
                admin_request |-> request]
        msg == new_raft_cmd(req, IF callback = "None" THEN "noop" ELSE callback)
    IN  IF closed \/ Len(chan) >= ChCap
        THEN [attempted |-> TRUE, ok |-> FALSE, ch |-> chan, invoked |-> {}]
        ELSE [attempted |-> TRUE, ok |-> TRUE, ch |-> <<msg>> \o chan, invoked |-> {}]

\* mutant: a rejected command's callback is called to report the failure
send_admin_request_notify(chan, closed, region_id, epoch, peer, request, callback) ==
    LET req == [header |-> [region_id |-> region_id, region_epoch |-> epoch,
                            peer |-> peer],
                admin_request |-> request]
        r == try_send(chan, closed,
                      new_raft_cmd(req, IF callback = "None" THEN "noop" ELSE callback))
    IN  IF r.ok \/ callback = "None" THEN r ELSE [r EXCEPT !.invoked = {callback}]

send_admin_request(chan, closed, region_id, epoch, peer, request, callback) ==
    LET req == [header |-> [region_id |-> region_id, region_epoch |-> epoch,
                            peer |-> peer],
                admin_request |-> request]
    IN  try_send(chan, closed,
                 new_raft_cmd(req, IF callback = "None" THEN "noop" ELSE callback))

\* mutant: the tombstone carries the epoch of the local region
send_destroy_peer_message_local_epoch(chan, closed, local_region, peer, pd_region) ==
    LET message == [region_id |-> local_region.id, from_peer |-> peer,
                    to_peer |-> peer, region_epoch |-> local_region.region_epoch,
                    is_tombstone |-> TRUE]
    IN  try_send(chan, closed, [type |-> "RaftMessage", message |-> message])

send_destroy_peer_message(chan, closed, local_region, peer, pd_region) ==
    LET message == [region_id |-> local_region.id, from_peer |-> peer,
                    to_peer |-> peer, region_epoch |-> pd_region.region_epoch,
                    is_tombstone |-> TRUE]
    IN  try_send(chan, closed, [type |-> "RaftMessage", message |-> message])

\* mutant: the configured capacity is used even when it is 0 (unbounded)
store_capacity_no_unbounded(configured, disk_cap) ==
    IF disk_cap < configured THEN disk_cap ELSE configured

\* lines 219-224 of handle_store_heartbeat
store_capacity(configured, disk_cap) ==
    IF configured = 0 \/ disk_cap < configured THEN disk_cap ELSE configured

\* mutant: the free space of the filesystem does not cap the result
store_available_uncapped(capacity, used_size, free_space) ==
    IF capacity > used_size THEN capacity - used_size ELSE 0

\* lines 231-242 of handle_store_heartbeat
store_available(capacity, used_size, free_space) ==
    LET available == IF capacity > used_size THEN capacity - used_size ELSE 0
    IN  IF available > free_space THEN free_space ELSE available

\* ------------------------------------------------- closures run by the driver
\* What a closure does when the driver polls it: its use of the channel, the
\* counters it increments and whether it panics.
Effect(send, req_inc, hb_inc, validate_inc, panic) ==
    [send |-> send, req_inc |-> req_inc, hb_inc |-> hb_inc,
     validate_inc |-> validate_inc, panic |-> panic]

\* mutant: a failed RPC is reported through the task's callback
ask_split_then_report_err(f, resp, chan, closed) ==
    IF resp.ok
    THEN LET req == new_split_region_request(f.split_key, resp.new_region_id,
                                             resp.new_peer_ids, f.right_derive)
         IN  Effect(send_admin_request(chan, closed, f.region.id,
                                       f.region.region_epoch, f.peer, req, f.callback),
                    {<<"ask split", "success">>}, {}, {}, FALSE)
    ELSE Effect([NoSend(chan) EXCEPT !.invoked = {f.callback} \ {"None"}],
                {}, {}, {}, FALSE)

\* the closure of handle_ask_split, given the RPC's result
ask_split_then(f, resp, chan, closed) ==
    IF resp.ok
    THEN LET req == new_split_region_request(f.split_key, resp.new_region_id,
                                             resp.new_peer_ids, f.right_derive)
         IN  Effect(send_admin_request(chan, closed, f.region.id,
                                       f.region.region_epoch, f.peer, req, f.callback),
                    {<<"ask split", "success">>}, {}, {}, FALSE)
    ELSE Effect(NoSend(chan), {}, {}, {}, FALSE)

\* mutant: an OK reply to region_heartbeat counts as a heartbeat success
heartbeat_then_counts_ok(f, resp, chan, closed) ==
    IF resp.ok
    THEN Effect(NoSend(chan), {<<"heartbeat", "success">>}, {}, {}, FALSE)
    ELSE Effect(NoSend(chan), {}, {}, {}, FALSE)

\* map_err of handle_heartbeat
heartbeat_then(f, resp, chan, closed) ==
    Effect(NoSend(chan), {}, {}, {}, FALSE)

\* mutant: an acknowledged store heartbeat is passed on to the Raft layer
store_heartbeat_then_forwards(f, resp, chan, closed) ==
    IF resp.ok
    THEN Effect(try_send(chan, closed,
                         [type |-> "RaftMessage",
                          message |-> [region_id |-> 0, from_peer |-> Peer(0),
                                       to_peer |-> Peer(0),
                                       region_epoch |-> Epoch(0, 0),
                                       is_tombstone |-> FALSE]]),
                {}, {}, {}, FALSE)
    ELSE Effect(NoSend(chan), {}, {}, {}, FALSE)

\* map_err of handle_store_heartbeat
store_heartbeat_then(f, resp, chan, closed) ==
    Effect(NoSend(chan), {}, {}, {}, FALSE)

\* mutant: the result is unwrapped, an error panics
report_split_then_unwrap(f, resp, chan, closed) ==
    IF resp.ok
    THEN Effect(NoSend(chan), {<<"report split", "success">>}, {}, {}, FALSE)
    ELSE Effect(NoSend(chan), {}, {}, {}, TRUE)

\* the closure of handle_report_split
report_split_then(f, resp, chan, closed) ==
    IF resp.ok
    THEN Effect(NoSend(chan), {<<"report split", "success">>}, {}, {}, FALSE)
    ELSE Effect(NoSend(chan), {}, {}, {}, FALSE)

\* mutant: any() where the code has all()
peer_absent_any(pd_region, peer) ==
    \E i \in 1..Len(pd_region.peers) : pd_region.peers[i] # peer

\* p != &peer for every p of pd_region.get_peers()
peer_absent(pd_region, peer) ==
    \A i \in 1..Len(pd_region.peers) : pd_region.peers[i] # peer

\* mutant: the peer-stale branch does not return and goes on to count the
\* peer as valid
validate_peer_then_falls_through(f, resp, chan, closed) ==
    IF resp.ok /\ resp.some
    THEN IF is_epoch_stale(resp.region.region_epoch, f.local_region.region_epoch)
         THEN Effect(NoSend(chan), {<<"get region", "success">>}, {},
                     {"region epoch error"}, FALSE)
         ELSE IF peer_absent(resp.region, f.peer)
         THEN Effect(send_destroy_peer_message(chan, closed, f.local_region,
                                               f.peer, resp.region),
                     {<<"get region", "success">>}, {},
                     {"peer stale", "peer valid"}, FALSE)
         ELSE Effect(NoSend(chan), {<<"get region", "success">>}, {},
                     {"peer valid"}, FALSE)
    ELSE Effect(NoSend(chan), {}, {}, {}, FALSE)

\* the closure of handle_validate_peer
validate_peer_then(f, resp, chan, closed) ==
    IF resp.ok /\ resp.some
    THEN IF is_epoch_stale(resp.region.region_epoch, f.local_region.region_epoch)
         THEN Effect(NoSend(chan), {<<"get region", "success">>}, {},
                     {"region epoch error"}, FALSE)
         ELSE IF peer_absent(resp.region, f.peer)
         THEN Effect(send_destroy_peer_message(chan, closed, f.local_region,
                                               f.peer, resp.region),
                     {<<"get region", "success">>}, {}, {"peer stale"}, FALSE)
         ELSE Effect(NoSend(chan), {<<"get region", "success">>}, {},
                     {"peer valid"}, FALSE)
    ELSE Effect(NoSend(chan), {}, {}, {}, FALSE)

\* mutant: the command's header names the peer to change, not the target peer
hb_callback_header_peer(resp, chan, closed) ==
    IF resp.has_change_peer
    THEN LET req == new_change_peer_request(resp.change_peer.change_type,
                                            resp.change_peer.peer)
         IN  Effect(send_admin_request(chan, closed, resp.region_id,
                                       resp.region_epoch, resp.change_peer.peer, req,
                                       "None"),
                    {<<"heartbeat", "success">>}, {"change peer"}, {}, FALSE)
    ELSE IF resp.has_transfer_leader
    THEN LET req == new_transfer_leader_request(resp.transfer_leader.peer)
         IN  Effect(send_admin_request(chan, closed, resp.region_id,
                                       resp.region_epoch, resp.transfer_leader.peer, req,
                                       "None"),
                    {<<"heartbeat", "success">>}, {"transfer leader"}, {}, FALSE)
    ELSE Effect(NoSend(chan), {<<"heartbeat", "success">>}, {}, {}, FALSE)

\* mutant: the two branches are separate ifs, a directive with both parts
\* sends both commands
hb_callback_both_branches(resp, chan, closed) ==
    LET cp == send_admin_request(chan, closed, resp.region_id, resp.region_epoch,
                                 resp.target_peer,
                                 new_change_peer_request(resp.change_peer.change_type,
                                                         resp.change_peer.peer),
                                 "None")
        after_cp == IF resp.has_change_peer THEN cp ELSE NoSend(chan)
        tl == send_admin_request(after_cp.ch, closed, resp.region_id,
                                 resp.region_epoch, resp.target_peer,
                                 new_transfer_leader_request(resp.transfer_leader.peer),
                                 "None")
    IN  Effect(IF resp.has_transfer_leader THEN tl ELSE after_cp,
               {<<"heartbeat", "success">>},
               (IF resp.has_change_peer THEN {"change peer"} ELSE {})
                   \cup (IF resp.has_transfer_leader THEN {"transfer leader"} ELSE {}),
               {}, FALSE)

\* the callback schedule_heartbeat_receiver hands to
\* handle_region_heartbeat_response, given one directive
hb_callback(resp, chan, closed) ==
    IF resp.has_change_peer
    THEN LET req == new_change_peer_request(resp.change_peer.change_type,
                                            resp.change_peer.peer)
         IN  Effect(send_admin_request(chan, closed, resp.region_id,
                                       resp.region_epoch, resp.target_peer, req, "None"),
                    {<<"heartbeat", "success">>}, {"change peer"}, {}, FALSE)
    ELSE IF resp.has_transfer_leader
    THEN LET req == new_transfer_leader_request(resp.transfer_leader.peer)
         IN  Effect(send_admin_request(chan, closed, resp.region_id,
                                       resp.region_epoch, resp.target_peer, req, "None"),
                    {<<"heartbeat", "success">>}, {"transfer leader"}, {}, FALSE)
    ELSE Effect(NoSend(chan), {<<"heartbeat", "success">>}, {}, {}, FALSE)

\* map_err(|e| panic!(..)) and map(|_| info!(..)) on the consumer's stream future
hb_stream_end(is_err) == [panic |-> is_err, state |-> IF is_err THEN "panicked" ELSE "exited"]

\* ------------------------------------------------------------------- state
ReqLabels ==
    {"ask split", "heartbeat", "report split", "get region"} \X {"all", "success"}

HbLabels == {"change peer", "transfer leader"}

ValidateLabels == {"region epoch error", "peer stale", "peer valid"}

Bump(counter, labels) ==
    [l \in DOMAIN counter |-> IF l \in labels THEN counter[l] + 1 ELSE counter[l]]

NoStats == [capacity |-> 0, used_size |-> 0, available |-> 0]

Init ==
    /\ is_hb_receiver_scheduled = FALSE
    /\ hbSpawned = 0
    /\ hbState = "idle"
    /\ hbDelivered = 0
    /\ runs = 0
    /\ futures = {}
    /\ ch = <<>>
    /\ chClosed = FALSE
    /\ hbInCh = <<>>
    /\ panicked = FALSE
    /\ streamErr = FALSE
    /\ reqCounter = [l \in ReqLabels |-> 0]
    /\ hbCounter = [l \in HbLabels |-> 0]
    /\ validateCounter = [l \in ValidateLabels |-> 0]
    /\ gauge = [capacity |-> 0, available |-> 0]
    /\ rpcIssued = 0
    /\ storeHb = [input |-> StoreHbInput(0, FALSE, 0, 0, 0, 0), stats |-> NoStats]
    /\ pdLast = [op |-> "none", id |-> 0, resp |-> [ok |-> FALSE]]
    /\ sendErrs = 0
    /\ cbInvoked = {}

consumerVars == <<hbDelivered, hbInCh, streamErr, hbCounter>>
chanVars == <<ch, chClosed, sendErrs, cbInvoked>>
storeVars == <<gauge, storeHb>>
gateVars == <<is_hb_receiver_scheduled, hbSpawned, hbState>>

\* ----------------------------------------------------------------- actions
\* handle.spawn(f): the future joins those the driver polls
spawn(f) == futures' = futures \cup {f}

\* mutant: the consumer is spawned but the gate is left as it was
schedule_heartbeat_receiver_gate_unset ==
    /\ hbSpawned' = hbSpawned + 1
    /\ hbState' = "running"
    /\ is_hb_receiver_scheduled' = is_hb_receiver_scheduled

schedule_heartbeat_receiver ==
    /\ hbSpawned' = hbSpawned + 1
    /\ hbState' = "running"
    /\ is_hb_receiver_scheduled' = TRUE

\* mutant: the handler waits until the driver has no outstanding future
handle_ask_split_waiting(id, task) ==
    /\ futures = {}
    /\ reqCounter' = Bump(reqCounter, {<<"ask split", "all">>})
    /\ rpcIssued' = rpcIssued + 1
    /\ spawn([id |-> id, kind |-> "AskSplit", region |-> task.region,
              split_key |-> task.split_key, peer |-> task.peer,
              right_derive |-> task.right_derive, callback |-> task.callback])
    /\ UNCHANGED storeVars

handle_ask_split(id, task) ==
    /\ reqCounter' = Bump(reqCounter, {<<"ask split", "all">>})
    /\ rpcIssued' = rpcIssued + 1
    /\ spawn([id |-> id, kind |-> "AskSplit", region |-> task.region,
              split_key |-> task.split_key, peer |-> task.peer,
              right_derive |-> task.right_derive, callback |-> task.callback])
    /\ UNCHANGED storeVars

handle_heartbeat(id, task) ==
    /\ reqCounter' = Bump(reqCounter, {<<"heartbeat", "all">>})
    /\ rpcIssued' = rpcIssued + 1
    /\ spawn([id |-> id, kind |-> "Heartbeat", region |-> task.region])
    /\ UNCHANGED storeVars

\* mutant: a failed probe publishes empty gauges
handle_store_heartbeat_clears_gauges(id, task) ==
    IF ~task.probe_ok
    THEN /\ gauge' = [capacity |-> 0, available |-> 0]
         /\ UNCHANGED <<reqCounter, rpcIssued, futures, storeHb>>
    ELSE LET capacity == store_capacity(task.configured, task.disk_total)
             used_size == task.stats_used + task.engine_used
             available == store_available(capacity, used_size, task.disk_free)
         IN  /\ gauge' = [capacity |-> capacity, available |-> available]
             /\ storeHb' = [input |-> task,
                            stats |-> [capacity |-> capacity, used_size |-> used_size,
                                       available |-> available]]
             /\ rpcIssued' = rpcIssued + 1
             /\ spawn([id |-> id, kind |-> "StoreHeartbeat"])
             /\ UNCHANGED reqCounter

handle_store_heartbeat(id, task) ==
    IF ~task.probe_ok
    THEN UNCHANGED <<reqCounter, rpcIssued, futures, gauge, storeHb>>
    ELSE LET capacity == store_capacity(task.configured, task.disk_total)
             used_size == task.stats_used + task.engine_used
             available == store_available(capacity, used_size, task.disk_free)
         IN  /\ gauge' = [capacity |-> capacity, available |-> available]
             /\ storeHb' = [input |-> task,
                            stats |-> [capacity |-> capacity, used_size |-> used_size,
                                       available |-> available]]
             /\ rpcIssued' = rpcIssued + 1
             /\ spawn([id |-> id, kind |-> "StoreHeartbeat"])
             /\ UNCHANGED reqCounter

handle_report_split(id, task) ==
    /\ reqCounter' = Bump(reqCounter, {<<"report split", "all">>})
    /\ rpcIssued' = rpcIssued + 1
    /\ spawn([id |-> id, kind |-> "ReportSplit"])
    /\ UNCHANGED storeVars

handle_validate_peer(id, task) ==
    /\ reqCounter' = Bump(reqCounter, {<<"get region", "all">>})
    /\ rpcIssued' = rpcIssued + 1
    /\ spawn([id |-> id, kind |-> "ValidatePeer", local_region |-> task.region,
              peer |-> task.peer])
    /\ UNCHANGED storeVars

\* Runner::run
run(task) ==
    /\ ~panicked
    /\ runs < MaxRuns
    /\ runs' = runs + 1
    /\ IF ~is_hb_receiver_scheduled
       THEN schedule_heartbeat_receiver
       ELSE UNCHANGED gateVars
    /\ CASE task.kind = "AskSplit" -> handle_ask_split(runs + 1, task)
         [] task.kind = "Heartbeat" -> handle_heartbeat(runs + 1, task)
         [] task.kind = "StoreHeartbeat" -> handle_store_heartbeat(runs + 1, task)
         [] task.kind = "ReportSplit" -> handle_report_split(runs + 1, task)
         [] task.kind = "ValidatePeer" -> handle_validate_peer(runs + 1, task)
    /\ UNCHANGED <<consumerVars, chanVars, panicked, validateCounter, pdLast>>

\* the effects of a closure on the worker's state
Apply(e) ==
    /\ ch' = e.send.ch
    /\ sendErrs' = IF e.send.attempted /\ ~e.send.ok THEN sendErrs + 1 ELSE sendErrs
    /\ cbInvoked' = cbInvoked \cup e.send.invoked
    /\ reqCounter' = Bump(reqCounter, e.req_inc)
    /\ hbCounter' = Bump(hbCounter, e.hb_inc)
    /\ validateCounter' = Bump(validateCounter, e.validate_inc)
    /\ panicked' = (panicked \/ e.panic)

\* mutant: a request that resolved with an error is issued again
Complete_retries(f, op, resp, e, observed) ==
    /\ ~panicked
    /\ futures' = IF resp.ok THEN futures \ {f} ELSE futures
    /\ rpcIssued' = IF resp.ok THEN rpcIssued ELSE rpcIssued + 1
    /\ pdLast' = IF observed THEN [op |-> op, id |-> f.id, resp |-> resp] ELSE pdLast
    /\ Apply(e)
    /\ UNCHANGED <<gateVars, hbDelivered, hbInCh, streamErr, runs, chClosed,
                   storeVars>>

\* the driver polls a task future whose RPC has resolved with resp
Complete(f, op, resp, e, observed) ==
    /\ ~panicked
    /\ futures' = futures \ {f}
    /\ pdLast' = IF observed THEN [op |-> op, id |-> f.id, resp |-> resp] ELSE pdLast
    /\ Apply(e)
    /\ UNCHANGED <<gateVars, hbDelivered, hbInCh, streamErr, runs, chClosed,
                   storeVars, rpcIssued>>

\* the driver polls one task future, its RPC resolved with one of `responses`
ask_split_poll(f, responses, observed) ==
    /\ f.kind = "AskSplit"
    /\ \E resp \in responses :
          Complete(f, "ask_split", resp, ask_split_then(f, resp, ch, chClosed),
                   observed)

heartbeat_poll(f) ==
    /\ f.kind = "Heartbeat"
    /\ \E resp \in UnitResponses :
          Complete(f, "region_heartbeat", resp,
                   heartbeat_then(f, resp, ch, chClosed), FALSE)

store_heartbeat_poll(f) ==
    /\ f.kind = "StoreHeartbeat"
    /\ \E resp \in UnitResponses :
          Complete(f, "store_heartbeat", resp,
                   store_heartbeat_then(f, resp, ch, chClosed), FALSE)

report_split_poll(f) ==
    /\ f.kind = "ReportSplit"
    /\ \E resp \in UnitResponses :
          Complete(f, "report_split", resp,
                   report_split_then(f, resp, ch, chClosed), FALSE)

validate_peer_poll(f, all, observed) ==
    /\ f.kind = "ValidatePeer"
    /\ \E resp \in IF all THEN GetRegionResponses(f.local_region.id)
                          ELSE GetRegionResponsesSome(f.local_region.id) :
          Complete(f, "get_region_by_id", resp,
                   validate_peer_then(f, resp, ch, chClosed), observed)

\* the poll of future f under the mixed specification
Poll(f) ==
    \/ ask_split_poll(f, AskSplitResponsesSome, FALSE)
    \/ heartbeat_poll(f)
    \/ store_heartbeat_poll(f)
    \/ report_split_poll(f)
    \/ validate_peer_poll(f, FALSE, FALSE)

AskSplitResolve == \E f \in futures : ask_split_poll(f, AskSplitResponsesSome, FALSE)

AskSplitResolveAll == \E f \in futures : ask_split_poll(f, AskSplitResponses, TRUE)

HeartbeatResolve == \E f \in futures : heartbeat_poll(f)

StoreHeartbeatResolve == \E f \in futures : store_heartbeat_poll(f)

ReportSplitResolve == \E f \in futures : report_split_poll(f)

ValidatePeerResolve == \E f \in futures : validate_peer_poll(f, FALSE, FALSE)

ValidatePeerResolveAll == \E f \in futures : validate_peer_poll(f, TRUE, TRUE)

\* the directive stream yields d and the consumer's callback handles it
HbReceiveOf(directives, observed) ==
    \E d \in directives :
        /\ ~panicked
        /\ hbState = "running"
        /\ hbDelivered < MaxDirectives
        /\ hbDelivered' = hbDelivered + 1
        /\ pdLast' = IF observed THEN [op |-> "directive", id |-> 0, resp |-> d]
                               ELSE pdLast
        /\ LET e == hb_callback(d, ch, chClosed)
           IN  /\ Apply(e)
               /\ hbInCh' = IF e.send.attempted /\ e.send.ok
                            THEN Append(hbInCh, d)
                            ELSE hbInCh
        /\ UNCHANGED <<gateVars, streamErr, runs, futures, chClosed, storeVars,
                       rpcIssued>>

HbReceive == HbReceiveOf(DirectivesSome, FALSE)

HbReceiveAll == HbReceiveOf(Directives, TRUE)

\* mutant: a stream that ends without error clears the gate
HbStreamEnds_clears_gate(is_err) ==
    /\ ~panicked
    /\ hbState = "running"
    /\ streamErr' = is_err
    /\ hbState' = hb_stream_end(is_err).state
    /\ panicked' = hb_stream_end(is_err).panic
    /\ is_hb_receiver_scheduled' = is_err
    /\ UNCHANGED <<hbSpawned, hbDelivered, hbInCh, hbCounter,
                   runs, futures, chanVars, reqCounter, validateCounter, storeVars,
                   rpcIssued, pdLast>>

HbStreamEnds(is_err) ==
    /\ ~panicked
    /\ hbState = "running"
    /\ streamErr' = is_err
    /\ hbState' = hb_stream_end(is_err).state
    /\ panicked' = hb_stream_end(is_err).panic
    /\ UNCHANGED <<is_hb_receiver_scheduled, hbSpawned, hbDelivered, hbInCh, hbCounter,
                   runs, futures, chanVars, reqCounter, validateCounter, storeVars,
                   rpcIssued, pdLast>>

\* the stream yields an error
HbStreamError == HbStreamEnds(TRUE)

\* the stream ends without error
HbStreamFinish == HbStreamEnds(FALSE)

IsHbCmd(m) ==
    /\ m.type = "RaftCmd"
    /\ m.request.admin_request.cmd_type \in {"ChangePeer", "TransferLeader"}

\* the Raft layer takes the oldest message off the channel
Recv ==
    /\ ~panicked
    /\ ~chClosed
    /\ ch # <<>>
    /\ ch' = Tail(ch)
    /\ hbInCh' = IF IsHbCmd(Head(ch)) /\ hbInCh # <<>> THEN Tail(hbInCh) ELSE hbInCh
    /\ UNCHANGED <<gateVars, hbDelivered, streamErr, hbCounter, runs, futures, chClosed,
                   sendErrs, cbInvoked, panicked, reqCounter, validateCounter,
                   storeVars, rpcIssued, pdLast>>

\* the receiving end of the channel is dropped
CloseCh ==
    /\ ~panicked
    /\ ~chClosed
    /\ chClosed' = TRUE
    /\ UNCHANGED <<gateVars, consumerVars, runs, futures, ch, sendErrs, cbInvoked,
                   panicked, reqCounter, validateCounter, storeVars, rpcIssued,
                   pdLast>>

RunAskSplit == \E t \in AskSplitSome : run(t)
RunHeartbeat == \E t \in HeartbeatSome : run(t)
RunStoreHeartbeat == \E t \in StoreHeartbeatTasks : run(t)
RunReportSplit == \E t \in ReportSplitTasks : run(t)
RunValidatePeer == \E t \in ValidatePeerSome : run(t)

RunAny ==
    \/ RunAskSplit
    \/ RunHeartbeat
    \/ RunStoreHeartbeat
    \/ RunReportSplit
    \/ RunValidatePeer

\* every task kind and the consumer, interleaved, on a channel nobody drains
Next ==
    \/ RunAskSplit
    \/ RunHeartbeat
    \/ RunStoreHeartbeat
    \/ RunReportSplit
    \/ RunValidatePeer
    \/ AskSplitResolve
    \/ HeartbeatResolve
    \/ StoreHeartbeatResolve
    \/ ReportSplitResolve
    \/ ValidatePeerResolve
    \/ HbReceive
    \/ HbStreamError
    \/ HbStreamFinish
    \/ CloseCh

Spec == Init /\ [][Next]_vars

\* the first store heartbeat of a worker, over the whole grid of byte counts
RunStoreHeartbeatGrid == runs = 0 /\ \E t \in StoreHeartbeatGrid : run(t)

NextStore ==
    \/ RunStoreHeartbeatGrid
    \/ StoreHeartbeatResolve

SpecStore == Init /\ [][NextStore]_vars

\* the two users of send_admin_request, the tombstone sender and the channel's
\* receiver, interleaved
NextChan ==
    \/ RunAskSplit
    \/ RunValidatePeer
    \/ AskSplitResolve
    \/ ValidatePeerResolve
    \/ HbReceive
    \/ Recv
    \/ CloseCh

SpecChan == Init /\ [][NextChan]_vars

\* AskSplit tasks over all their payloads and responses
RunAskSplitAll == \E t \in AskSplitTasks : run(t)

NextAskSplit ==
    \/ RunAskSplitAll
    \/ AskSplitResolveAll
    \/ Recv
    \/ CloseCh

SpecAskSplit == Init /\ [][NextAskSplit]_vars

\* the consumer over all directives, started by a region heartbeat
NextHb ==
    \/ RunHeartbeat
    \/ HeartbeatResolve
    \/ HbReceiveAll
    \/ HbStreamError
    \/ HbStreamFinish
    \/ Recv
    \/ CloseCh

SpecHb == Init /\ [][NextHb]_vars

\* ValidatePeer tasks over all their payloads and responses
RunValidatePeerAll == \E t \in ValidatePeerTasks : run(t)

NextValidate ==
    \/ RunValidatePeerAll
    \/ ValidatePeerResolveAll
    \/ Recv
    \/ CloseCh

SpecValidate == Init /\ [][NextValidate]_vars

\* the polls and the consumer with what the Director delivered on record
AskSplitResolveSeen == \E f \in futures : ask_split_poll(f, AskSplitResponsesSome, TRUE)

HeartbeatResolveSeen ==
    \E f \in futures :
        /\ f.kind = "Heartbeat"
        /\ \E resp \in UnitResponses :
              Complete(f, "region_heartbeat", resp,
                       heartbeat_then(f, resp, ch, chClosed), TRUE)

ReportSplitResolveSeen ==
    \E f \in futures :
        /\ f.kind = "ReportSplit"
        /\ \E resp \in UnitResponses :
              Complete(f, "report_split", resp,
                       report_split_then(f, resp, ch, chClosed), TRUE)

ValidatePeerResolveSeen == \E f \in futures : validate_peer_poll(f, FALSE, TRUE)

HbReceiveSeen == HbReceiveOf(DirectivesSome, TRUE)

\* the four counted task kinds and the consumer
NextCount ==
    \/ RunAskSplit
    \/ RunHeartbeat
    \/ RunReportSplit
    \/ RunValidatePeer
    \/ AskSplitResolveSeen
    \/ HeartbeatResolveSeen
    \/ ReportSplitResolveSeen
    \/ ValidatePeerResolveSeen
    \/ HbReceiveSeen

SpecCount == Init /\ [][NextCount]_vars

\* a store heartbeat whose probe succeeds, then store heartbeats whose probes
\* fail, while the consumer uses the channel
RunStoreHeartbeatFirst ==
    /\ runs = 0
    /\ \E t \in StoreHeartbeatGrid :
          /\ t.probe_ok
          /\ t.stats_used = 0
          /\ t.engine_used = 0
          /\ run(t)

RunStoreHeartbeatProbeFails ==
    /\ runs >= 1
    /\ \E t \in StoreHeartbeatGrid : ~t.probe_ok /\ run(t)

NextProbe ==
    \/ RunStoreHeartbeatFirst
    \/ RunStoreHeartbeatProbeFails
    \/ StoreHeartbeatResolve
    \/ HbReceive

SpecProbe == Init /\ [][NextProbe]_vars

\* The first run call statement by statement: handle.spawn(f) of the consumer,
\* then the assignment to the gate, then the dispatch of the task. The driver
\* polls nothing before that run call has returned.
RunSpawnConsumer ==
    /\ ~panicked
    /\ runs < MaxRuns
    /\ ~is_hb_receiver_scheduled
    /\ hbSpawned = 0
    /\ hbSpawned' = hbSpawned + 1
    /\ hbState' = "running"
    /\ UNCHANGED <<is_hb_receiver_scheduled, consumerVars, chanVars, storeVars, runs,
                   futures, panicked, reqCounter, validateCounter, rpcIssued, pdLast>>

RunSetGate ==
    /\ hbSpawned = 1
    /\ ~is_hb_receiver_scheduled
    /\ is_hb_receiver_scheduled' = TRUE
    /\ UNCHANGED <<hbSpawned, hbState, consumerVars, chanVars, storeVars, runs,
                   futures, panicked, reqCounter, validateCounter, rpcIssued, pdLast>>

\* mutant: the task is dispatched although the gate is not yet set
RunDispatch_gate_unchecked == RunAny

RunDispatch == is_hb_receiver_scheduled /\ RunAny

HbReceiveAfterRun == runs >= 1 /\ HbReceive

NextGate ==
    \/ RunSpawnConsumer
    \/ RunSetGate
    \/ RunDispatch
    \/ HbReceiveAfterRun
    \/ AskSplitResolve
    \/ HeartbeatResolve
    \/ StoreHeartbeatResolve
    \/ ReportSplitResolve
    \/ ValidatePeerResolve

SpecGate == Init /\ [][NextGate]_vars

\* What a task future yields to the driver once its request has resolved with
\* resp. The closures given to then() end in Ok(()); map_err leaves an Ok as it
\* is and turns an error into Err(()).
ask_split_result(resp) == "Ok"

\* mutant: the logged error is turned into Ok(())
heartbeat_result_absorbed(resp) == "Ok"

heartbeat_result(resp) == IF resp.ok THEN "Ok" ELSE "Err"

store_heartbeat_result(resp) == IF resp.ok THEN "Ok" ELSE "Err"

report_split_result(resp) == "Ok"

validate_peer_result(resp) == "Ok"

future_result(f, resp) ==
    CASE f.kind = "AskSplit" -> ask_split_result(resp)
      [] f.kind = "Heartbeat" -> heartbeat_result(resp)
      [] f.kind = "StoreHeartbeat" -> store_heartbeat_result(resp)
      [] f.kind = "ReportSplit" -> report_split_result(resp)
      [] f.kind = "ValidatePeer" -> validate_peer_result(resp)

\* the poll of future f, with what the Director delivered on record
PollSeen(f) ==
    \/ ask_split_poll(f, AskSplitResponsesSome, TRUE)
    \/ /\ f.kind = "Heartbeat"
       /\ \E resp \in UnitResponses :
             Complete(f, "region_heartbeat", resp,
                      heartbeat_then(f, resp, ch, chClosed), TRUE)
    \/ /\ f.kind = "StoreHeartbeat"
       /\ \E resp \in UnitResponses :
             Complete(f, "store_heartbeat", resp,
                      store_heartbeat_then(f, resp, ch, chClosed), TRUE)
    \/ /\ f.kind = "ReportSplit"
       /\ \E resp \in UnitResponses :
             Complete(f, "report_split", resp,
                      report_split_then(f, resp, ch, chClosed), TRUE)
    \/ validate_peer_poll(f, FALSE, TRUE)

\* the request of the task dispatched by the id-th run call resolves and the
\* driver polls its future
ResolveSeen(id) == \E f \in futures : f.id = id /\ PollSeen(f)

ResolveAnySeen == \E id \in 1..MaxRuns : ResolveSeen(id)

NextLive ==
    \/ RunAskSplit
    \/ RunHeartbeat
    \/ RunStoreHeartbeat
    \/ RunReportSplit
    \/ RunValidatePeer
    \/ ResolveAnySeen
    \/ HbStreamError
    \/ CloseCh

\* every Director request eventually resolves and the driver is fair to every
\* future
SpecLive ==
    /\ Init
    /\ [][NextLive]_vars
    /\ \A id \in 1..MaxRuns : WF_vars(ResolveSeen(id))

\* ------------------------------------------------------------------ claims
Min(a, b) == IF a <= b THEN a ELSE b

Max(a, b) == IF a >= b THEN a ELSE b

\* C1: the heartbeat response consumer is spawned zero times before the first
\* run call, once during it and never again in a later run call.
C1_SpawnedExactlyOnce ==
    /\ runs = 0 => hbSpawned = 0
    /\ runs >= 1 => hbSpawned = 1

\* two run calls, both StoreHeartbeat tasks whose probe failed: one spawn
C1_Witness ==
    /\ runs >= 2
    /\ rpcIssued = 0
    /\ hbSpawned = 1

\* C5: the capacity sent to the Director is disk_total when the configured
\* capacity is 0 and min(configured, disk_total) when it is greater than 0.
C5_Capacity ==
    storeHb.input.probe_ok =>
        /\ storeHb.input.configured = 0 =>
              storeHb.stats.capacity = storeHb.input.disk_total
        /\ storeHb.input.configured > 0 =>
              storeHb.stats.capacity =
                  Min(storeHb.input.configured, storeHb.input.disk_total)

\* a heartbeat of an unbounded store on a disk that is not empty
C5_Witness ==
    /\ storeHb.input.probe_ok
    /\ storeHb.input.configured = 0
    /\ storeHb.input.disk_total > 0
    /\ storeHb.stats.capacity = storeHb.input.disk_total

\* C6: with used = stats.used + engine_used_size, the available bytes sent are
\* min(max(capacity - used, 0), filesystem_free): never more than
\* filesystem_free, and 0 whenever used >= capacity.
C6_Available ==
    storeHb.input.probe_ok =>
        LET used == storeHb.input.stats_used + storeHb.input.engine_used
            capacity == storeHb.stats.capacity
        IN  /\ storeHb.stats.used_size = used
            /\ storeHb.stats.available =
                  Min(Max(capacity - used, 0), storeHb.input.disk_free)
            /\ storeHb.stats.available <= storeHb.input.disk_free
            /\ used >= capacity => storeHb.stats.available = 0

\* the free space, smaller than capacity - used, is what is reported
C6_Witness ==
    /\ storeHb.input.probe_ok
    /\ storeHb.stats.capacity - storeHb.stats.used_size > storeHb.input.disk_free
    /\ storeHb.stats.available = storeHb.input.disk_free

\* what a step put on the channel: the messages of ch' that follow those of ch
Enqueued ==
    IF Len(ch') >= Len(ch) /\ SubSeq(ch', 1, Len(ch)) = ch
    THEN SubSeq(ch', Len(ch) + 1, Len(ch'))
    ELSE <<>>

\* the channel takes a try_send: it is neither closed nor full
Accepts == ~chClosed /\ Len(ch) < ChCap

RaftCmd(region_id, epoch, peer, admin, callback) ==
    [type |-> "RaftCmd",
     request |-> [header |-> [region_id |-> region_id, region_epoch |-> epoch,
                              peer |-> peer],
                  admin_request |-> admin],
     callback |-> callback]

ChangePeerCmdOf(d) ==
    RaftCmd(d.region_id, d.region_epoch, d.target_peer,
            [cmd_type |-> "ChangePeer",
             change_peer |-> [change_type |-> d.change_peer.change_type,
                              peer |-> d.change_peer.peer]],
            "noop")

TransferLeaderCmdOf(d) ==
    RaftCmd(d.region_id, d.region_epoch, d.target_peer,
            [cmd_type |-> "TransferLeader",
             transfer_leader |-> [peer |-> d.transfer_leader.peer]],
            "noop")

CmdsOfType(msgs, cmd_type) ==
    SelectSeq(msgs, LAMBDA m : m.type = "RaftCmd"
                               /\ m.request.admin_request.cmd_type = cmd_type)

\* the consumer's callback handled a directive in this step
DirectiveStep == hbDelivered' = hbDelivered + 1

\* C2, as stated: for every directive that carries ChangePeer (resp.
\* TransferLeader) exactly one ChangePeer (resp. TransferLeader) command with
\* the directive's header and payload is enqueued, whatever the state of the
\* channel.
C2_Original ==
    [][DirectiveStep =>
        LET d == pdLast'.resp
        IN  /\ d.has_change_peer =>
                  CmdsOfType(Enqueued, "ChangePeer") = <<ChangePeerCmdOf(d)>>
            /\ d.has_transfer_leader =>
                  CmdsOfType(Enqueued, "TransferLeader") = <<TransferLeaderCmdOf(d)>>
      ]_vars

\* C2, amended: a directive that carries ChangePeer enqueues exactly its
\* ChangePeer command, and one that carries TransferLeader and no ChangePeer
\* exactly its TransferLeader command, when the channel is neither full nor
\* closed; when it is full or closed nothing is enqueued.
C2_Amended ==
    [][DirectiveStep =>
        LET d == pdLast'.resp
        IN  /\ Accepts /\ d.has_change_peer =>
                  ch' = Append(ch, ChangePeerCmdOf(d))
            /\ Accepts /\ d.has_transfer_leader /\ ~d.has_change_peer =>
                  ch' = Append(ch, TransferLeaderCmdOf(d))
            /\ ~Accepts => ch' = ch
      ]_vars

\* the command of a ChangePeer directive is the newest message of the channel
C2_Witness ==
    /\ pdLast.op = "directive"
    /\ pdLast.resp.has_change_peer
    /\ pdLast.resp.change_peer.change_type = "RemoveNode"
    /\ ch # <<>>
    /\ ch[Len(ch)] = ChangePeerCmdOf(pdLast.resp)

\* the driver polled a task future in this step
PollStep == futures' # futures /\ runs' = runs

Polled == CHOOSE f \in futures : f \notin futures'

TombstonePut ==
    /\ Len(Enqueued) = 1
    /\ Enqueued[1].type = "RaftMessage"
    /\ Enqueued[1].message.is_tombstone

IsMember(peer, region) == \E i \in 1..Len(region.peers) : region.peers[i] = peer

\* Some(pd_region), the epoch check passes, the peer is no member of pd_region
Obsolete(f, resp) ==
    /\ resp.ok
    /\ resp.some
    /\ ~is_epoch_stale(resp.region.region_epoch, f.local_region.region_epoch)
    /\ ~IsMember(f.peer, resp.region)

\* C3, as stated: a tombstone is put on the channel if and only if the
\* Director returns Some(pd_region), the epoch check passes and the peer is
\* not in pd_region.peers.
C3_Original ==
    [][PollStep /\ Polled.kind = "ValidatePeer" =>
        (TombstonePut <=> Obsolete(Polled, pdLast'.resp))
      ]_vars

\* C3, amended: a tombstone is put on the channel if and only if the Director
\* returns Some(pd_region), the epoch check passes, the peer is not in
\* pd_region.peers and the channel is neither full nor closed; in every other
\* case the channel is left as it was.
C3_Amended ==
    [][PollStep /\ Polled.kind = "ValidatePeer" =>
        /\ TombstonePut <=> (Obsolete(Polled, pdLast'.resp) /\ Accepts)
        /\ ~TombstonePut => ch' = ch
      ]_vars

\* a tombstone is the newest message of the channel
C3_Witness ==
    /\ pdLast.op = "get_region_by_id"
    /\ pdLast.resp.some
    /\ ch # <<>>
    /\ ch[Len(ch)].type = "RaftMessage"
    /\ validateCounter["peer stale"] >= 1

SplitCmdOf(f, resp) ==
    RaftCmd(f.region.id, f.region.region_epoch, f.peer,
            [cmd_type |-> "Split",
             split |-> [split_key |-> f.split_key,
                        new_region_id |-> resp.new_region_id,
                        new_peer_ids |-> resp.new_peer_ids,
                        right_derive |-> f.right_derive]],
            IF f.callback = "None" THEN "noop" ELSE f.callback)

\* C4: when the ask_split RPC of an AskSplit task resolves OK, what is enqueued
\* is the Split command with the task's split key, the returned new_region_id
\* and new_peer_ids, right_derive unchanged, a header with the id and epoch of
\* the region carried in the task and the requesting peer, and the task's
\* callback; it is enqueued whenever the channel is neither full nor closed.
C4_SplitCommand ==
    [][PollStep /\ Polled.kind = "AskSplit" /\ pdLast'.resp.ok =>
        /\ Enqueued \in {<<>>, <<SplitCmdOf(Polled, pdLast'.resp)>>}
        /\ Accepts => ch' = Append(ch, SplitCmdOf(Polled, pdLast'.resp))
      ]_vars

\* the first task's Split command, with its callback, enqueued after a later
\* task was dispatched
C4_Witness ==
    /\ pdLast.op = "ask_split"
    /\ pdLast.id = 1
    /\ pdLast.resp.ok
    /\ runs >= 2
    /\ ch # <<>>
    /\ ch[Len(ch)].type = "RaftCmd"
    /\ ch[Len(ch)].callback = "cb1"
    /\ ch[Len(ch)].request.admin_request.split.right_derive
    /\ ch[Len(ch)].request.admin_request.split.new_region_id = pdLast.resp.new_region_id

CmdOf(d) == IF d.has_change_peer THEN ChangePeerCmdOf(d) ELSE TransferLeaderCmdOf(d)

\* C7: the commands of the consumer that are in the channel stand in the order
\* in which the consumer handled their directives, whatever task futures put
\* on the channel in between.
C7_DirectiveOrder ==
    SelectSeq(ch, IsHbCmd) = [i \in 1..Len(hbInCh) |-> CmdOf(hbInCh[i])]

\* the commands of two different directives are both in the channel, and a
\* task future was polled meanwhile
C7_Witness ==
    /\ Len(hbInCh) >= 2
    /\ hbInCh[1] # hbInCh[2]
    /\ runs >= 2
    /\ Cardinality(futures) < runs

\* an ask_split or report_split RPC has resolved with an error: the request
\* was counted, is no longer pending and was not counted as a success
RpcFailed ==
    \E op \in {"ask split", "report split"} :
        reqCounter[<<op, "all">>] - reqCounter[<<op, "success">>]
            > Cardinality({f \in futures :
                             f.kind = IF op = "ask split" THEN "AskSplit"
                                                          ELSE "ReportSplit"})

SendRejected == sendErrs > 0

\* C8: run returns without waiting for any Director RPC: while a task's RPC is
\* outstanding, a task of every kind can still be dispatched, every pending
\* future can complete and directives are still consumed.
C8_NeverWaits ==
    futures # {} /\ ~panicked =>
        /\ runs < MaxRuns =>
              /\ ENABLED RunAskSplit
              /\ ENABLED RunHeartbeat
              /\ ENABLED RunStoreHeartbeat
              /\ ENABLED RunReportSplit
              /\ ENABLED RunValidatePeer
        /\ \A f \in futures : ENABLED Poll(f)
        /\ hbState = "running" /\ hbDelivered < MaxDirectives => ENABLED HbReceive

\* the first task's RPC is still outstanding; a later task was dispatched, its
\* RPC issued and its future completed, and a directive was consumed
C8_Witness ==
    /\ \E f \in futures : f.id = 1
    /\ runs >= 2
    /\ rpcIssued = runs
    /\ Cardinality(futures) < runs
    /\ hbDelivered >= 1

\* C9: the worker has panicked exactly when the directive stream has yielded
\* an error. In every state in which the stream has not failed, so after any
\* failed RPC, failed probe or rejected send, the worker still dispatches
\* tasks of every kind and polls every pending future.
C9_OnlyStreamErrorIsFatal ==
    /\ panicked <=> streamErr
    /\ ~streamErr =>
          /\ runs < MaxRuns =>
                /\ ENABLED RunAskSplit
                /\ ENABLED RunHeartbeat
                /\ ENABLED RunStoreHeartbeat
                /\ ENABLED RunReportSplit
                /\ ENABLED RunValidatePeer
          /\ \A f \in futures : ENABLED Poll(f)

\* an RPC failed and a send was rejected, and a task dispatched after that is
\* being handled
C9_Witness ==
    /\ RpcFailed
    /\ SendRejected
    /\ ~panicked
    /\ futures # {}

\* send_admin_request was called in this step
AdminSendStep ==
    \/ hbCounter' # hbCounter
    \/ reqCounter'[<<"ask split", "success">>] # reqCounter[<<"ask split", "success">>]

\* C10: when the channel is full or closed at a send_admin_request, the
\* channel's contents stay as they are, the worker invokes no callback, and
\* nothing of the command is kept for a later send: the AskSplit future that
\* sent it is gone, and the consumer keeps no future for it.
C10_RejectedCommandDropped ==
    [][AdminSendStep /\ ~Accepts =>
        /\ ch' = ch
        /\ cbInvoked' = {}
        /\ sendErrs' = sendErrs + 1
        /\ IF hbCounter' # hbCounter
           THEN futures' = futures
           ELSE \E f \in futures : f.kind = "AskSplit" /\ futures' = futures \ {f}
      ]_vars

\* the Split command of an AskSplit task that came with a callback was
\* rejected, and the driver has nothing left to poll
C10_Witness ==
    /\ sendErrs >= 1
    /\ validateCounter["peer stale"] = 0
    /\ hbCounter["change peer"] = 0
    /\ hbCounter["transfer leader"] = 0
    /\ reqCounter[<<"ask split", "success">>] >= 1
    /\ futures = {}

\* C11: when the ask_split RPC of an AskSplit task resolves with an error, the
\* channel is left as it was, no callback is invoked, no Director request is
\* issued, and the task's future is gone without a successor.
C11_AskSplitErrorDropsTask ==
    [][PollStep /\ Polled.kind = "AskSplit" /\ ~pdLast'.resp.ok =>
        /\ ch' = ch
        /\ sendErrs' = sendErrs
        /\ cbInvoked' = {}
        /\ rpcIssued' = rpcIssued
        /\ futures' = futures \ {Polled}
        /\ reqCounter' = reqCounter
      ]_vars

\* the only AskSplit task dispatched has failed at the Director and is done
C11_Witness ==
    /\ pdLast.op = "ask_split"
    /\ ~pdLast.resp.ok
    /\ reqCounter[<<"ask split", "all">>] = 1
    /\ reqCounter[<<"ask split", "success">>] = 0
    /\ futures = {}
    /\ rpcIssued = 1

Ops == {"ask split", "heartbeat", "report split", "get region"}

KindOf(op) ==
    CASE op = "ask split" -> "AskSplit"
      [] op = "heartbeat" -> "Heartbeat"
      [] op = "report split" -> "ReportSplit"
      [] op = "get region" -> "ValidatePeer"

\* run dispatched a task in this step, and the future it spawned
DispatchStep == runs' = runs + 1

Dispatched == CHOOSE f \in futures' : f \notin futures

Dispatches(op) ==
    DispatchStep /\ futures' # futures /\ Dispatched.kind = KindOf(op)

\* a future of the kind of op was polled, its request resolved OK
ResolvesOk(op) == PollStep /\ Polled.kind = KindOf(op) /\ pdLast'.resp.ok

\* C12, as stated: {op, all} goes up by one exactly in the step that
\* dispatches a task of the kind of op, and {op, success} goes up by one
\* exactly in the step in which such a task's request resolves OK.
C12_Original ==
    [][\A op \in Ops :
        /\ reqCounter'[<<op, "all">>] =
              reqCounter[<<op, "all">>] + (IF Dispatches(op) THEN 1 ELSE 0)
        /\ reqCounter'[<<op, "success">>] =
              reqCounter[<<op, "success">>] + (IF ResolvesOk(op) THEN 1 ELSE 0)
      ]_vars

\* the step of op that counts as its success in the code
CountsSuccess(op) ==
    CASE op = "heartbeat" -> DirectiveStep
      [] op = "get region" -> ResolvesOk(op) /\ pdLast'.resp.some
      [] OTHER -> ResolvesOk(op)

\* C12, amended: {op, all} goes up by one exactly in the step that dispatches
\* a task of the kind of op. {ask split, success} and {report split, success}
\* go up by one exactly when such a task's request resolves OK,
\* {get region, success} exactly when get_region_by_id resolves to
\* Some(region), and {heartbeat, success} exactly when the consumer handles a
\* directive, not when a region_heartbeat request resolves.
C12_Amended ==
    [][\A op \in Ops :
        /\ reqCounter'[<<op, "all">>] =
              reqCounter[<<op, "all">>] + (IF Dispatches(op) THEN 1 ELSE 0)
        /\ reqCounter'[<<op, "success">>] =
              reqCounter[<<op, "success">>] + (IF CountsSuccess(op) THEN 1 ELSE 0)
      ]_vars

\* a region_heartbeat request has resolved OK with no directive handled yet,
\* and the heartbeat success count is still 0
C12_Witness ==
    /\ pdLast.op = "region_heartbeat"
    /\ pdLast.resp.ok
    /\ hbDelivered = 0
    /\ reqCounter[<<"heartbeat", "all">>] >= 1
    /\ reqCounter[<<"heartbeat", "success">>] = 0

\* C13: a StoreHeartbeat task whose probe fails (under SpecProbe, every task
\* after the first) issues no Director request, leaves both gauges and the
\* stats last sent as they were, spawns no future and leaves the channel as
\* it was.
C13_ProbeFailureAborts ==
    [][DispatchStep /\ runs >= 1 =>
        /\ rpcIssued' = rpcIssued
        /\ gauge' = gauge
        /\ storeHb' = storeHb
        /\ futures' = futures
        /\ ch' = ch
        /\ reqCounter' = reqCounter
      ]_vars

\* after a store heartbeat that published non-zero gauges, a task whose probe
\* failed was dispatched while a command was in the channel
C13_Witness ==
    /\ runs >= 2
    /\ rpcIssued = 1
    /\ gauge.capacity >= 1
    /\ gauge.available >= 1
    /\ ch # <<>>

TombstoneOf(f, pd_region) ==
    [type |-> "RaftMessage",
     message |-> [region_id |-> f.local_region.id, from_peer |-> f.peer,
                  to_peer |-> f.peer, region_epoch |-> pd_region.region_epoch,
                  is_tombstone |-> TRUE]]

RaftMessages(msgs) == SelectSeq(msgs, LAMBDA m : m.type = "RaftMessage")

\* C14: whenever a Raft message is put on the channel, it is put there by the
\* poll of a ValidatePeer future and is the tombstone with the id of the
\* task's local region, the task's peer as from_peer and to_peer and the
\* epoch of the region the Director returned; so every Raft message in the
\* channel is a tombstone addressed from a peer to itself.
C14_OnlyTombstones ==
    [][/\ RaftMessages(Enqueued) # <<>> =>
            /\ PollStep
            /\ Polled.kind = "ValidatePeer"
            /\ pdLast'.resp.some
            /\ Enqueued = <<TombstoneOf(Polled, pdLast'.resp.region)>>
       /\ \A i \in 1..Len(ch') :
            ch'[i].type = "RaftMessage" =>
                /\ ch'[i].message.is_tombstone
                /\ ch'[i].message.from_peer = ch'[i].message.to_peer
      ]_vars

\* a tombstone is in the channel whose epoch is the Director's and differs
\* from the epoch of the local region it names
C14_Witness ==
    /\ ch # <<>>
    /\ ch[Len(ch)].type = "RaftMessage"
    /\ ch[Len(ch)].message.region_epoch = pdLast.resp.region.region_epoch
    /\ \E l \in LocalRegions :
          /\ l.id = ch[Len(ch)].message.region_id
          /\ l.region_epoch # ch[Len(ch)].message.region_epoch

\* the verdict on the answer resp to the ValidatePeer future f
Verdict(f, resp) ==
    IF ~(resp.ok /\ resp.some)
    THEN {}
    ELSE IF is_epoch_stale(resp.region.region_epoch, f.local_region.region_epoch)
    THEN {"region epoch error"}
    ELSE IF ~IsMember(f.peer, resp.region)
    THEN {"peer stale"}
    ELSE {"peer valid"}

\* C15: the poll of a ValidatePeer future whose request resolved to
\* Some(pd_region) adds one to exactly one verdict counter: 'region epoch
\* error' when the local epoch is fresher than the Director's, and then the
\* channel is left as it was; otherwise 'peer stale' when the peer is not in
\* pd_region.peers; otherwise 'peer valid'. When the request resolved to None
\* or to an error, and in every other step, no verdict counter changes.
C15_OneVerdict ==
    [][IF PollStep /\ Polled.kind = "ValidatePeer"
       THEN LET v == Verdict(Polled, pdLast'.resp)
            IN  /\ validateCounter' = Bump(validateCounter, v)
                /\ Cardinality(v) = IF pdLast'.resp.ok /\ pdLast'.resp.some
                                    THEN 1 ELSE 0
                /\ v = {"region epoch error"} => ch' = ch
       ELSE validateCounter' = validateCounter
      ]_vars

\* an epoch error and a stale peer have each been counted once
C15_Witness ==
    /\ validateCounter["region epoch error"] = 1
    /\ validateCounter["peer stale"] = 1
    /\ validateCounter["peer valid"] = 0
    /\ futures = {}

\* C16: a directive puts at most one command on the channel. One with neither
\* ChangePeer nor TransferLeader leaves the channel and the pd_heartbeat_total
\* counters as they were and attempts no send; one with both yields nothing
\* but its ChangePeer command and counts as 'change peer' only.
C16_AtMostOneCommand ==
    [][DirectiveStep =>
        LET d == pdLast'.resp
        IN  /\ Len(ch') <= Len(ch) + 1
            /\ Len(Enqueued) = Len(ch') - Len(ch)
            /\ ~d.has_change_peer /\ ~d.has_transfer_leader =>
                  /\ ch' = ch
                  /\ hbCounter' = hbCounter
                  /\ sendErrs' = sendErrs
            /\ d.has_change_peer /\ d.has_transfer_leader =>
                  /\ Enqueued \in {<<>>, <<ChangePeerCmdOf(d)>>}
                  /\ Accepts => Enqueued = <<ChangePeerCmdOf(d)>>
                  /\ hbCounter' = Bump(hbCounter, {"change peer"})
      ]_vars

\* a directive with both parts was handled last: its ChangePeer command is the
\* newest message of the channel and no transfer of leadership was counted
C16_Witness ==
    /\ pdLast.op = "directive"
    /\ pdLast.resp.has_change_peer
    /\ pdLast.resp.has_transfer_leader
    /\ ch # <<>>
    /\ ch[Len(ch)] = ChangePeerCmdOf(pdLast.resp)
    /\ hbCounter["transfer leader"] = 0
    /\ hbCounter["change peer"] >= 1

\* C17: a Director request is issued only in the step that dispatches a task,
\* one per task: exactly one when the task is of a counted kind or spawns a
\* future, none when it is a StoreHeartbeat whose probe fails (the one
\* dispatch that spawns nothing). No poll, whatever its outcome, and no
\* directive issues a request.
C17_NoRetry ==
    [][/\ DispatchStep =>
            /\ rpcIssued' = rpcIssued + (IF futures' # futures THEN 1 ELSE 0)
            /\ reqCounter' # reqCounter => rpcIssued' = rpcIssued + 1
            /\ Cardinality(futures') <= Cardinality(futures) + 1
       /\ ~DispatchStep => rpcIssued' = rpcIssued
       /\ rpcIssued' <= runs'
      ]_vars

\* a request failed, a probe failed, both tasks are done: one request in all
C17_Witness ==
    /\ runs = 2
    /\ rpcIssued = 1
    /\ RpcFailed
    /\ futures = {}

\* C18, as stated: in no state has the consumer been spawned while the gate is
\* still false.
C18_Original == hbSpawned >= 1 => is_hb_receiver_scheduled

\* C18, amended: the consumer is spawned at most once; a state in which it has
\* been spawned while the gate is still false lies inside the first run call,
\* where the next thing to happen is the assignment to the gate: no task has
\* been dispatched, nothing has been polled, and neither a dispatch nor the
\* consumer nor a second spawn can take a step. Once a run call has returned
\* the gate is set.
C18_Amended ==
    /\ hbSpawned <= 1
    /\ hbSpawned = 1 /\ ~is_hb_receiver_scheduled =>
          /\ runs = 0
          /\ futures = {}
          /\ hbDelivered = 0
          /\ ch = <<>>
          /\ ENABLED RunSetGate
          /\ ~ENABLED RunDispatch
          /\ ~ENABLED HbReceiveAfterRun
          /\ ~ENABLED RunSpawnConsumer
    /\ runs >= 1 => is_hb_receiver_scheduled /\ hbSpawned = 1

\* the gate has just been set in the first run call, whose task is not yet
\* dispatched
C18_Witness ==
    /\ hbSpawned = 1
    /\ is_hb_receiver_scheduled
    /\ runs = 0

\* C19: once true, the gate stays true. Once the consumer has exited because
\* the stream ended without error, it stays exited: no run call spawns it
\* again, no directive is handled and no ChangePeer or TransferLeader command
\* is put on the channel.
C19_GateNeverReset ==
    [][/\ is_hb_receiver_scheduled => is_hb_receiver_scheduled'
       /\ hbState = "exited" =>
            /\ hbState' = "exited"
            /\ hbSpawned' = hbSpawned
            /\ hbDelivered' = hbDelivered
            /\ hbCounter' = hbCounter
            /\ SelectSeq(Enqueued, IsHbCmd) = <<>>
       /\ hbState' = "exited" => is_hb_receiver_scheduled' /\ hbSpawned' = 1
      ]_vars

\* the consumer has exited with directives still to come, two run calls have
\* been made and the second task's future is pending
C19_Witness ==
    /\ hbState = "exited"
    /\ ~panicked
    /\ hbDelivered < MaxDirectives
    /\ runs = 2
    /\ \E f \in futures : f.id = 2
    /\ hbSpawned = 1

IsSplitCmd(m) == m.type = "RaftCmd" /\ m.request.admin_request.cmd_type = "Split"

\* C20: dispatching any task and polling a Heartbeat, StoreHeartbeat or
\* ReportSplit future, whatever its outcome, leave the channel as it was and
\* attempt no send. The channel changes only when an AskSplit future is
\* polled, which adds at most one message, a Split command; when a
\* ValidatePeer future is polled, which adds at most one message, a Raft
\* message; or when the consumer handles a directive, which adds at most one
\* message, a ChangePeer or TransferLeader command. A polled future is gone,
\* so each task sends at most once.
C20_ChannelWriters ==
    [][/\ DispatchStep => ch' = ch /\ sendErrs' = sendErrs
       /\ PollStep => futures' = futures \ {Polled}
       /\ PollStep /\ Polled.kind \in {"Heartbeat", "StoreHeartbeat", "ReportSplit"} =>
            ch' = ch /\ sendErrs' = sendErrs
       /\ ch' # ch =>
            /\ Len(ch') = Len(ch) + 1
            /\ Len(Enqueued) = 1
            /\ \/ PollStep /\ Polled.kind = "AskSplit" /\ IsSplitCmd(Enqueued[1])
               \/ PollStep /\ Polled.kind = "ValidatePeer"
                     /\ Enqueued[1].type = "RaftMessage"
               \/ DirectiveStep /\ IsHbCmd(Enqueued[1])
      ]_vars

\* a report_split request failed and a store heartbeat was sent, both futures
\* are done, and the channel holds a command of the consumer
C20_Witness ==
    /\ reqCounter[<<"report split", "all">>] = 1
    /\ reqCounter[<<"report split", "success">>] = 0
    /\ gauge.capacity >= 1
    /\ runs = 2
    /\ futures = {}
    /\ Len(ch) = 1
    /\ IsHbCmd(ch[1])

Pending(id) == \E f \in futures : f.id = id

\* what a step did with the channel: at most one try_send, accepted or not
AtMostOneSend ==
    /\ Len(ch') <= Len(ch) + 1
    /\ (Len(ch') - Len(ch)) + (sendErrs' - sendErrs) <= 1
    /\ sendErrs' >= sendErrs

\* a future leaves the driver only in the poll that follows the answer to its
\* own request, one future per step
LeavesOnlyWhenResolved ==
    /\ Cardinality(futures \ futures') <= 1
    /\ \A f \in futures \ futures' : pdLast'.id = f.id /\ pdLast' # pdLast

ResultInCode(f, resp) ==
    IF f.kind \in {"Heartbeat", "StoreHeartbeat"} /\ ~resp.ok THEN "Err" ELSE "Ok"

====
